---- MODULE Spec2Model ----
(***************************************************************************)
(* A model of the lemon-sand simulation kernel: the cell data model        *)
(* (core/src/cell.rs), the reaction declarations (core/src/reactions.rs)   *)
(* and the sandbox engine (core/src/sandbox.rs).                           *)
(*                                                                         *)
(* Numbers.  f32 quantities are kept as integers in hundredths: moisture   *)
(* 1.0 is 100, velocity 0.3 is 30.  A product with a factor f (also in     *)
(* hundredths) is (|v| * f) \div 100 with the sign of v, so a product      *)
(* is truncated to the hundredth where f32 would keep more digits.         *)
(*                                                                         *)
(* Randomness.  Every fastrand draw of update() is an input of the Update  *)
(* action: the scan direction of each row, the shuffle of the diffusion    *)
(* candidates and the two side draws of each processed cell.               *)
(***************************************************************************)
EXTENDS Integers, Sequences, FiniteSets, TLC

VARIABLES
    width,          \* Sandbox.width
    height,         \* Sandbox.height
    cells,          \* Sandbox.cells, row-major, indices 0 .. width*height-1
    update_counter, \* Sandbox.update_counter (u8)
    \* history variables, none of them read by the program
    places,         \* number of place() calls so far
    ticks,          \* number of update() calls so far
    lastOp,         \* the last call, with its arguments
    placedGrid,     \* the grid as it was right after the last place() (or new())
    ticksSince,     \* update() calls since then
    log,            \* the swaps of the last update(), in order
    procs,          \* the cells the last update() processed, in order
    passed,         \* the non-empty cells it visited and did not process
    xfers,          \* its diffusion transfers, in order
    visited,        \* the positions it visited, in order (kept under ScanSpec only)
    depleted,       \* the positions where the last update() replaced a depleted cell
    declared,       \* the REACTIONS slice
    table,          \* REACTION_TABLE, the map ReactionTable::default builds from it
    lookup,         \* the last get_reactions call, with what it returned
    row32           \* a one-row sandbox of two cells with its moisture in f32

vars == <<width, height, cells, update_counter,
          places, ticks, lastOp, placedGrid, ticksSince, log, procs, passed, xfers,
          visited, depleted, declared, table, lookup, row32>>

-----------------------------------------------------------------------------
(* Bounds of the model *)

MaxWidth == 3
MaxHeight == 3
\* place() calls per run: RowPlace on the one-row grid (a cell with a source
\* on either side), MaxPlace on the others
MaxPlace == 2
RowPlace == 3
\* update() calls per run: MaxTicks on a grid of at most SoakCells cells and on
\* the one-row grid (long enough for a source to deplete), TallTicks on the
\* one-column grid of TallHeight rows (long enough for a fall of several
\* cells per update), ShortTicks on the full grid
MaxTicks == 20
SoakCells == 2
TallHeight == 6
TallTicks == 8
ShortTicks == 5
\* place() is called before the update with this number, not after
MaxPlaceTick == 0
\* the column a cell reaches max_velocity in, and the update() calls it has
FallHeight == 128
FallTicks == 30
\* the longest REACTIONS slice the table is built from
MaxRules == 3
\* the update() and place() calls of a run of the one-row sandbox in f32
RoundTicks == 40
RoundPlaces == 3
\* the row of a second cell that falls ahead of one placed in row 0
FallGap == 9

-----------------------------------------------------------------------------
(* core/src/cell.rs *)

CellType == {"Empty", "Sand", "Water"}

\* vx, vy of a new cell
velocity_default == [vx |-> 0, vy |-> 0]

inherent_wetness(t) ==
    CASE t = "Empty" -> 0
      [] t = "Sand"  -> 0
      [] t = "Water" -> 100

Cell_new(t) ==
    [type |-> t, moisture |-> inherent_wetness(t), last_updated |-> 0] @@ velocity_default

Cell_default == [type |-> "Empty", moisture |-> 0, last_updated |-> 0] @@ velocity_default

movement(c) ==
    CASE c.type = "Empty" -> "None"
      [] c.type = "Sand"  -> "Powder"
      [] c.type = "Water" -> "Liquid"

density(c) ==
    CASE c.type = "Empty" -> 0
      [] c.type = "Sand"  -> 10
      [] c.type = "Water" -> 1

property_capacity(c) ==
    CASE c.type = "Empty" -> 0
      [] c.type = "Sand"  -> 150
      [] c.type = "Water" -> 0

property_min_saturation(c) ==
    CASE c.type = "Empty" -> 0
      [] c.type = "Sand"  -> 50
      [] c.type = "Water" -> 0

property_diffusion_rate(c) ==
    CASE c.type = "Empty" -> 0
      [] c.type = "Sand"  -> 1
      [] c.type = "Water" -> 100

property_accept_rate(c) ==
    CASE c.type = "Empty" -> 0
      [] c.type = "Sand"  -> 5
      [] c.type = "Water" -> 0

property_diffuse_potential(c) ==
    IF c.moisture = 0 THEN 0
    ELSE IF c.moisture > property_diffusion_rate(c) THEN property_diffusion_rate(c)
    ELSE c.moisture

property_accept_potential(c) ==
    LET raw_potential == property_capacity(c) - c.moisture
    IN  IF raw_potential <= 0 THEN 0
        ELSE IF raw_potential > property_accept_rate(c) THEN property_accept_rate(c)
        ELSE raw_potential

is_pure_source(c) == c.type = "Water"

is_empty(c) == c.type = "Empty"

\* The three per-kind factors of the velocity model that sandbox.rs calls.
gravity_factor(c) ==
    CASE c.type = "Empty" -> 0
      [] c.type = "Sand"  -> 100
      [] c.type = "Water" -> 100

slide_speed_factor(c) ==
    CASE c.type = "Empty" -> 100
      [] c.type = "Sand"  -> 100
      [] c.type = "Water" -> 100

spread_impulse(c) ==
    CASE c.type = "Empty" -> 0
      [] c.type = "Sand"  -> 0
      [] c.type = "Water" -> 100

-----------------------------------------------------------------------------
(* core/src/reactions.rs *)

NoProduct == "None"

REACTIONS ==
    << [reactants |-> <<"Sand", "Water">>, products |-> <<"WetSand", NoProduct>>,
        probability |-> 100, condition |-> "None"] >>

\* table.entry(reaction.reactants).or_default().push(reaction): the HashMap
\* is a function from the keys it holds to their vectors
entry_push(t, reaction) ==
    IF reaction.reactants \in DOMAIN t
    THEN [t EXCEPT ![reaction.reactants] = Append(@, reaction)]
    ELSE t @@ (reaction.reactants :> <<reaction>>)

\* the loop of ReactionTable::default over the slice rs, from its k-th
\* reaction on
RECURSIVE table_fill(_, _, _)
table_fill(t, rs, k) ==
    IF k > Len(rs) THEN t
    ELSE table_fill(entry_push(t, rs[k]), rs, k + 1)

\* HashMap::new()
HashMap_new == [key \in {} |-> << >>]

ReactionTable_default(rs) == table_fill(HashMap_new, rs, 1)

\* Option<&[&Reaction]>
NoReactions == [some |-> FALSE, slice |-> << >>]

\* a variant that also looks under the reversed pair
get_reactions_either(t, a, b) ==
    IF <<a, b>> \in DOMAIN t THEN [some |-> TRUE, slice |-> t[<<a, b>>]]
    ELSE IF <<b, a>> \in DOMAIN t THEN [some |-> TRUE, slice |-> t[<<b, a>>]]
    ELSE NoReactions

get_reactions(t, a, b) ==
    IF <<a, b>> \in DOMAIN t THEN [some |-> TRUE, slice |-> t[<<a, b>>]]
    ELSE NoReactions

-----------------------------------------------------------------------------
(* f32 helpers *)

Abs(v) == IF v < 0 THEN -v ELSE v

\* f32::signum: +0.0 has signum 1.0
signum(v) == IF v < 0 THEN -1 ELSE 1

\* v * f, f a non-negative factor in hundredths
Mul(v, f) == signum(v) * ((Abs(v) * f) \div 100)

\* f32::floor of a non-negative value, as usize
\* a variant that rounds up
floor_up(v) == (v + 99) \div 100

floor(v) == v \div 100

\* a variant that does not clamp
clamp_off(v, lo, hi) == v

clamp(v, lo, hi) == IF v < lo THEN lo ELSE IF v > hi THEN hi ELSE v

Min(a, b) == IF a < b THEN a ELSE b

-----------------------------------------------------------------------------
(* core/src/sandbox.rs *)

gravity == 30
max_velocity == 800
default_friction == 50
push_side_factor == 20
depletion_threshold == 5

None == -1
NoCell == [type |-> "None"]
\* indexing the Vec outside its bounds panics
Panic == [type |-> "Panic"]

Sandbox_new(w, h) == [i \in 0 .. (w * h - 1) |-> Cell_default]

\* a variant without the test for negative coordinates
coords_to_index_unsigned(x, y) ==
    IF x >= width \/ y >= height THEN None
    ELSE y * width + x

coords_to_index(x, y) ==
    IF x < 0 \/ y < 0 \/ x >= width \/ y >= height THEN None
    ELSE y * width + x

get(cs, x, y) ==
    LET i == coords_to_index(x, y)
    IN  IF i = None THEN NoCell
        ELSE IF i \in DOMAIN cs THEN cs[i]
        ELSE Panic

\* a variant that also displaces a cell of equal density
can_displace_equal(cs, cell, to) ==
    LET t == get(cs, to[1], to[2])
    IN  IF t = NoCell THEN FALSE ELSE density(cell) >= density(t)

can_displace(cs, cell, to) ==
    LET t == get(cs, to[1], to[2])
    IN  IF t = NoCell THEN FALSE ELSE density(cell) > density(t)

\* a variant that writes only into an empty slot
place_if_empty(cs, x, y, cell) ==
    LET index == coords_to_index(x, y)
    IN  IF index # None /\ is_empty(cs[index]) THEN [cs EXCEPT ![index] = cell] ELSE cs

place(cs, x, y, cell) ==
    LET index == coords_to_index(x, y)
    IN  IF index # None THEN [cs EXCEPT ![index] = cell] ELSE cs

\* The state update() works on is a record T:
\*   cells    the grid
\*   counter  update_counter
\* and, as history,
\*   at       1 + the index of the grid position being processed
\*   moved    per slot: 0, or the `at' of the position whose processing last
\*            swapped the cell now in the slot
\*   procd    per slot: whether the cell now in it has been processed
\*   log      the swaps so far
\*   procs    the cells processed so far
\*   passed   the non-empty cells visited and not processed so far
\*   xfers    the diffusion transfers so far
\*   visited  the positions visited so far, if rec says to keep them
\*   depleted the positions whose cell was replaced on depletion
\*   drew     the side draws the current update_cell has made
\* a variant that moves the mover over the target instead of swapping the two
swap_cells_overwrite(T, from, to) ==
    LET i == coords_to_index(from[1], from[2])
        j == coords_to_index(to[1], to[2])
    IN  IF i = None THEN T
        ELSE IF j = None THEN T
        ELSE LET stamped == [T.cells EXCEPT ![i].last_updated = T.counter,
                                            ![j].last_updated = T.counter]
             IN  [T EXCEPT
                    !.cells = [stamped EXCEPT ![i] = Cell_default, ![j] = stamped[i]],
                    !.moved = [T.moved EXCEPT ![i] = T.at, ![j] = T.at],
                    !.procd = [T.procd EXCEPT ![i] = T.procd[j], ![j] = T.procd[i]],
                    !.log = Append(@, [at |-> T.at, from |-> from, to |-> to,
                                       mover |-> T.cells[i], target |-> T.cells[j],
                                       moverMoved |-> T.moved[i],
                                       targetMoved |-> T.moved[j]])]

swap_cells(T, from, to) ==
    LET i == coords_to_index(from[1], from[2])
        j == coords_to_index(to[1], to[2])
    IN  IF i = None THEN T
        ELSE IF j = None THEN T
        ELSE LET stamped == [T.cells EXCEPT ![i].last_updated = T.counter,
                                            ![j].last_updated = T.counter]
             IN  [T EXCEPT
                    !.cells = [stamped EXCEPT ![i] = stamped[j], ![j] = stamped[i]],
                    !.moved = [T.moved EXCEPT ![i] = T.at, ![j] = T.at],
                    !.procd = [T.procd EXCEPT ![i] = T.procd[j], ![j] = T.procd[i]],
                    !.log = Append(@, [at |-> T.at, from |-> from, to |-> to,
                                       mover |-> T.cells[i], target |-> T.cells[j],
                                       moverMoved |-> T.moved[i],
                                       targetMoved |-> T.moved[j]])]

NoDir == 0

find_open_direction(cs, cell, pos, dy, draw) ==
    LET left  == can_displace(cs, cell, <<pos[1] - 1, pos[2] + dy>>)
        right == can_displace(cs, cell, <<pos[1] + 1, pos[2] + dy>>)
    IN  CASE left /\ right   -> (IF draw THEN 1 ELSE -1)
          [] left /\ ~right  -> -1
          [] ~left /\ right  -> 1
          [] OTHER           -> NoDir

\* whether find_open_direction makes its draw
find_open_direction_draws(cs, cell, pos, dy) ==
    /\ can_displace(cs, cell, <<pos[1] - 1, pos[2] + dy>>)
    /\ can_displace(cs, cell, <<pos[1] + 1, pos[2] + dy>>)

\* returns the mover's copy with its vx changed
\* push_slide_down past its early return: diag and side are what the two
\* calls of find_open_direction return
push_slide_down_to(cell, blocker, diag, side) ==
    LET slide    == Mul(slide_speed_factor(cell), slide_speed_factor(blocker))
        transfer == Mul(Abs(cell.vy), slide)
    IN  IF diag # NoDir THEN [cell EXCEPT !.vx = @ + transfer * diag]
        ELSE IF spread_impulse(cell) > 0 /\ side # NoDir
             THEN [cell EXCEPT !.vx = @ + spread_impulse(cell) * side]
             ELSE cell

push_slide_down(cs, cell, pos, vy_dir, draw) ==
    IF get(cs, pos[1], pos[2] + vy_dir) = NoCell THEN cell
    ELSE push_slide_down_to(cell, get(cs, pos[1], pos[2] + vy_dir),
                            find_open_direction(cs, cell, pos, vy_dir, draw),
                            find_open_direction(cs, cell, pos, 0, draw))

\* whether push_slide_down makes a draw (it makes one at most)
push_slide_down_draws(cs, cell, pos, vy_dir) ==
    /\ get(cs, pos[1], pos[2] + vy_dir) # NoCell
    /\ \/ find_open_direction_draws(cs, cell, pos, vy_dir)
       \/ /\ find_open_direction(cs, cell, pos, vy_dir, FALSE) = NoDir
          /\ spread_impulse(cell) > 0
          /\ find_open_direction_draws(cs, cell, pos, 0)

\* whether push_blocker_vertical makes its draw
push_blocker_vertical_draws(cs, to) ==
    /\ get(cs, to[1], to[2]) # NoCell
    /\ ~is_empty(get(cs, to[1], to[2]))

push_blocker_vertical(cs, to, impulse, draw) ==
    LET b == coords_to_index(to[1], to[2])
    IN  IF b = None THEN cs
        ELSE IF is_empty(cs[b]) THEN cs
        ELSE [cs EXCEPT ![b].vy = @ + impulse,
                        ![b].vx = @ + Mul(impulse, push_side_factor) * (IF draw THEN 1 ELSE -1)]

push_blocker_horizontal(cs, to, impulse) ==
    LET b == coords_to_index(to[1], to[2])
    IN  IF b = None THEN cs
        ELSE IF is_empty(cs[b]) THEN cs
        ELSE [cs EXCEPT ![b].vx = @ + impulse]

\* the slot a vertical step goes to
vertical_next(current, vy_dir) == <<current[1], current[2] + vy_dir>>

\* a variant that steps diagonally down
horizontal_next_diagonal(current, vx_dir) == <<current[1] + vx_dir, current[2] + 1>>

\* the slot a horizontal step goes to
horizontal_next(current, vx_dir) == <<current[1] + vx_dir, current[2]>>

\* The two loops of move_with_velocity.  M is [T, cell, current]: the grid,
\* the mover's local copy and its position.
\* the else branch of the vertical loop: the mover, slid being its copy after
\* push_slide_down, pushes the blocker at next and loses half of its vy
vertical_blocked(M, next, vy_dir, slid, drawPush) ==
    [M EXCEPT !.T.cells = push_blocker_vertical(M.T.cells, next, Mul(slid.vy, 50), drawPush),
              !.T.drew = @ \cup
                  (IF push_slide_down_draws(M.T.cells, M.cell, M.current, vy_dir)
                   THEN {"slide"} ELSE {})
                  \cup
                  (IF push_blocker_vertical_draws(M.T.cells, next)
                   THEN {"push"} ELSE {}),
              !.cell = [slid EXCEPT !.vy = Mul(@, 50)]]

\* one pass of the vertical loop and the passes after it, next being the
\* slot the pass looks at
RECURSIVE vertical_steps(_, _, _, _, _)
vertical_step(M, n, vy_dir, next, drawSlide, drawPush) ==
    IF can_displace(M.T.cells, M.cell, next)
    THEN vertical_steps([M EXCEPT !.T = swap_cells(M.T, M.current, next),
                                  !.current = next],
                        n - 1, vy_dir, drawSlide, drawPush)
    ELSE vertical_blocked(M, next, vy_dir,
                          push_slide_down(M.T.cells, M.cell, M.current, vy_dir, drawSlide),
                          drawPush)

vertical_steps(M, n, vy_dir, drawSlide, drawPush) ==
    IF n = 0 THEN M
    ELSE vertical_step(M, n, vy_dir, vertical_next(M.current, vy_dir), drawSlide, drawPush)

\* one pass of the horizontal loop and the passes after it
RECURSIVE horizontal_steps(_, _, _)
horizontal_step(M, n, vx_dir, next) ==
    IF can_displace(M.T.cells, M.cell, next)
    THEN horizontal_steps([M EXCEPT !.T = swap_cells(M.T, M.current, next),
                                    !.current = next],
                          n - 1, vx_dir)
    ELSE [M EXCEPT !.T.cells = push_blocker_horizontal(M.T.cells, M.current,
                                                        Mul(M.cell.vx, 50)),
                   !.cell.vx = Mul(@, 50)]

horizontal_steps(M, n, vx_dir) ==
    IF n = 0 THEN M
    ELSE horizontal_step(M, n, vx_dir, horizontal_next(M.current, vx_dir))

\* the mover's copy with gravity added to its vy
accelerated(c0) ==
    [c0 EXCEPT !.vy = clamp(@ + Mul(gravity, gravity_factor(c0)),
                            -max_velocity, max_velocity)]

\* the vertical loop of the mover's copy cell from (x, y)
vertical_loop(T, cell, x, y, drawSlide, drawPush) ==
    vertical_steps([T |-> T, cell |-> cell, current |-> <<x, y>>],
                   floor(Abs(cell.vy)), signum(cell.vy), drawSlide, drawPush)

\* the horizontal loop, from where the vertical one has left the mover
horizontal_loop(V) == horizontal_steps(V, floor(Abs(V.cell.vx)), signum(V.cell.vx))

\* what the cell below leaves of a vx
surface_friction(below) ==
    IF below = NoCell THEN default_friction ELSE slide_speed_factor(below)

\* the end of move_with_velocity: friction, and the copy's velocity written
\* to the slot the mover is in
write_velocity(H, c, below) ==
    IF c = None THEN H.T
    ELSE [H.T EXCEPT !.cells[c].vx = Mul(H.cell.vx, surface_friction(below)),
                     !.cells[c].vy = H.cell.vy]

settle(H) ==
    write_velocity(H, coords_to_index(H.current[1], H.current[2]),
                   get(H.T.cells, H.current[1], H.current[2] + 1))

move_with_velocity(T, x, y, drawSlide, drawPush) ==
    IF get(T.cells, x, y) = NoCell THEN T
    ELSE settle(horizontal_loop(vertical_loop(T, accelerated(get(T.cells, x, y)),
                                              x, y, drawSlide, drawPush)))

update_movement(T, x, y, drawSlide, drawPush) ==
    LET cell == get(T.cells, x, y)
    IN  IF cell = NoCell THEN T
        ELSE CASE movement(cell) = "None"   -> T
               [] movement(cell) = "Powder" -> move_with_velocity(T, x, y, drawSlide, drawPush)
               [] movement(cell) = "Liquid" -> move_with_velocity(T, x, y, drawSlide, drawPush)
               [] movement(cell) = "Gas"    -> T

\* a variant that depletes strictly below the threshold
check_depletion_strict(cs, x, y) ==
    LET cell == get(cs, x, y)
    IN  IF cell = NoCell THEN cs
        ELSE IF is_pure_source(cell) /\ cell.moisture < depletion_threshold
             THEN place(cs, x, y, Cell_default)
             ELSE cs

\* a variant that turns the cell into Empty and leaves its fields
check_depletion_retype(cs, x, y) ==
    LET cell == get(cs, x, y)
    IN  IF cell = NoCell THEN cs
        ELSE IF is_pure_source(cell) /\ cell.moisture <= depletion_threshold
             THEN place(cs, x, y, [cell EXCEPT !.type = "Empty"])
             ELSE cs

check_depletion(cs, x, y) ==
    LET cell == get(cs, x, y)
    IN  IF cell = NoCell THEN cs
        ELSE IF is_pure_source(cell) /\ cell.moisture <= depletion_threshold
             THEN place(cs, x, y, Cell_default)
             ELSE cs

\* the eight candidates of update_property, before the shuffle
candidates(x, y) ==
    << <<x, y + 1>>, <<x - 1, y + 1>>, <<x + 1, y + 1>>, <<x - 1, y>>,
       <<x + 1, y>>, <<x, y - 1>>, <<x - 1, y - 1>>, <<x + 1, y - 1>> >>

\* the predicate of the find in try_spread_property
spread_accepts(cs, source, to) ==
    LET t == get(cs, to[1], to[2])
    IN  IF t = NoCell THEN FALSE
        ELSE (~is_empty(t) /\ is_pure_source(source))
             \/ (t.moisture < source.moisture /\ property_accept_potential(t) > 0)

\* try_spread_property, given the shuffled candidates
\* the candidates the find of try_spread_property accepts, as indices
spread_hits(cs, source, shuffled) ==
    {k \in 1 .. Len(shuffled) : spread_accepts(cs, source, shuffled[k])}

\* the first of them
spread_first(hits) == CHOOSE k \in hits : \A k2 \in hits : k <= k2

\* a variant that takes nothing from the source
spread_transfer_free(cs, si, ti, transfer) ==
    [cs EXCEPT ![ti].moisture = @ + transfer]

\* the transfer between the slots si and ti
spread_transfer(cs, si, ti, transfer) ==
    [cs EXCEPT ![ti].moisture = @ + transfer, ![si].moisture = @ - transfer]

\* try_spread_property once the find has returned the candidate to
spread_to(cs, x, y, source, to) ==
    check_depletion(
        spread_transfer(cs, coords_to_index(x, y), coords_to_index(to[1], to[2]),
                        Min(property_diffuse_potential(source),
                            property_accept_potential(get(cs, to[1], to[2])))),
        x, y)

\* try_spread_property returns whether it has found a target: here, with the
\* grid it leaves and the target
not_spread(cs) == [cells |-> cs, found |-> FALSE, to |-> << >>]

spread_from(cs, x, y, source, shuffled, hits) ==
    IF hits = {} THEN not_spread(cs)
    ELSE [cells |-> spread_to(cs, x, y, source, shuffled[spread_first(hits)]),
          found |-> TRUE,
          to    |-> shuffled[spread_first(hits)]]

try_spread_property(cs, x, y, shuffled) ==
    IF get(cs, x, y) = NoCell THEN not_spread(cs)
    ELSE spread_from(cs, x, y, get(cs, x, y), shuffled,
                     spread_hits(cs, get(cs, x, y), shuffled))

\* fastrand::shuffle decides which candidate the find meets first.  A shuffle
\* is given by the candidate it puts in front of the others: front is an
\* index into candidates(x, y), and the other seven keep their order.
shuffle(cands, front) ==
    <<cands[front]>> \o SelectSeq(cands, LAMBDA c : c # cands[front])

\* a variant without the minimum-saturation test
update_property_eager(cs, x, y, front) ==
    LET source == get(cs, x, y)
    IN  IF source = NoCell THEN not_spread(cs)
        ELSE IF is_empty(source) THEN not_spread(cs)
        ELSE try_spread_property(cs, x, y, shuffle(candidates(x, y), front))

update_property(cs, x, y, front) ==
    LET source == get(cs, x, y)
    IN  IF source = NoCell THEN not_spread(cs)
        ELSE IF is_empty(source) THEN not_spread(cs)
        ELSE IF source.moisture < property_min_saturation(source) THEN not_spread(cs)
        ELSE try_spread_property(cs, x, y, shuffle(candidates(x, y), front))

\* the grid update_property leaves, R being what it returns, with the
\* transfer added to the history
spread_logged(T, x, y, R) ==
    IF ~R.found THEN [T EXCEPT !.cells = R.cells]
    ELSE [T EXCEPT !.cells = R.cells,
                   !.xfers = Append(@, [at |-> T.at, from |-> <<x, y>>, to |-> R.to,
                                        source |-> get(T.cells, x, y),
                                        target |-> get(T.cells, R.to[1], R.to[2]),
                                        sourceAfter |-> get(R.cells, x, y),
                                        targetAfter |-> get(R.cells, R.to[1], R.to[2]),
                                        swaps |-> Len(T.log)])]

\* a variant that does not look at last_updated
skips_unstamped(cell, counter) == is_empty(cell)

\* the test of update_cell's second early return
skips(cell, counter) == is_empty(cell) \/ cell.last_updated = counter

update_cell(T, x, y, front, drawSlide, drawPush) ==
    LET cell == get(T.cells, x, y)
    IN  IF cell = NoCell THEN T
        ELSE IF skips(cell, T.counter) THEN T
        ELSE update_movement(spread_logged(T, x, y, update_property(T.cells, x, y, front)),
                             x, y, drawSlide, drawPush)

\* the column update() visits as the i-th of a row
\* a variant that is one off in the right-to-left scan
scan_x_off(i, scan_right) == IF scan_right THEN i ELSE width - i

scan_x(i, scan_right) == IF scan_right THEN i ELSE (width - 1) - i

\* whether update_cell goes past its two early returns on cell c
Processed(c, counter) == c # NoCell /\ ~skips(c, counter)

\* The shuffles that differ in what update_property does with them: one per
\* candidate the find of try_spread_property accepts, that candidate in front.
Fronts(cs, x, y) ==
    IF spread_hits(cs, get(cs, x, y), candidates(x, y)) = {} THEN {1}
    ELSE spread_hits(cs, get(cs, x, y), candidates(x, y))

\* update_cell(x, y) on a cell it processes, with the history it leaves; k is
\* the index of (x, y)
\* the history at the start of update_cell(x, y): here is the index of
\* (x, y), k + 1 the number the position goes by
visit_begin(T, k, x, y, here) ==
    [T EXCEPT !.at = k + 1,
              !.drew = {},
              !.procd[here] = TRUE,
              !.procs = Append(@, [x |-> x, y |-> y, cell |-> T.cells[here],
                                   moved |-> T.moved[here],
                                   procd |-> T.procd[here]])]

\* the history at its end: T0 is the state before it, T1 the state after
visit_end(T0, T1, x, y, here) ==
    IF is_pure_source(T0.cells[here]) /\ is_empty(T1.cells[here]) /\ T1.log = T0.log
    THEN [T1 EXCEPT !.depleted = @ \cup {<<x, y>>}]
    ELSE T1

visit_cell(T0, x, y, front, drawSlide, drawPush) ==
    visit_end(T0, update_cell(T0, x, y, front, drawSlide, drawPush),
              x, y, coords_to_index(x, y))

visit(T, k, x, y, front, drawSlide, drawPush) ==
    visit_cell(visit_begin(T, k, x, y, coords_to_index(x, y)),
               x, y, front, drawSlide, drawPush)

\* update_cell(x, y) on a cell it does not process, with the history it leaves
pass(T, x, y) ==
    IF get(T.cells, x, y) = NoCell \/ is_empty(get(T.cells, x, y))
    THEN update_cell(T, x, y, 1, FALSE, FALSE)
    ELSE [update_cell(T, x, y, 1, FALSE, FALSE) EXCEPT
             !.passed = Append(@, [x |-> x, y |-> y, cell |-> get(T.cells, x, y),
                                   moved |-> T.moved[coords_to_index(x, y)]])]

\* What update_cell(x, y) can leave behind for one shuffle, over the side
\* draws it makes; one is what it leaves with both draws FALSE.
Draws(T, k, x, y, front, one) ==
    {one} \cup
    {visit(T, k, x, y, front, drawSlide, drawPush) :
        drawSlide \in (IF "slide" \in one.drew THEN BOOLEAN ELSE {FALSE}),
        drawPush \in (IF "push" \in one.drew THEN BOOLEAN ELSE {FALSE})}

\* What update_cell(x, y) can leave behind, over the draws it makes: the
\* shuffle of the candidates and the side draws.  A cell that is not
\* processed makes no draw and is left as it is; a side draw that is not made
\* has no alternative.
Outcomes(T, k, x, y) ==
    IF ~Processed(get(T.cells, x, y), T.counter) THEN {pass(T, x, y)}
    ELSE UNION { Draws(T, k, x, y, front, visit(T, k, x, y, front, FALSE, FALSE))
                 : front \in Fronts(T.cells, x, y) }

\* the history when the loop comes to (x, y)
arrive(T, x, y) ==
    IF T.rec THEN [T EXCEPT !.visited = Append(@, <<x, y>>)] ELSE T

\* The inner loop of update() over row y, from its i-th position on, for the
\* row's scan_right.  S is the set of states the loop can be in.
RECURSIVE scan_row(_, _, _, _)
scan_row(S, y, i, scan_right) ==
    IF i >= width THEN S
    ELSE scan_row(UNION {Outcomes(arrive(T, scan_x(i, scan_right), y),
                                  coords_to_index(scan_x(i, scan_right), y),
                                  scan_x(i, scan_right), y) : T \in S},
                  y, i + 1, scan_right)

\* The outer loop of update() over the rows hi down to lo; scan_right is drawn
\* per row.  The rows are taken in the loop's order, the half nearer the bottom
\* first: splitting the range (and testing S, which makes TLC
\* work out the states a row leaves before it turns to the next row) keeps
\* the evaluation of a tall grid shallow.
RECURSIVE scan_rows(_, _, _)
scan_rows(S, hi, lo) ==
    IF S = {} \/ hi < lo THEN S
    ELSE IF hi = lo THEN scan_row(S, hi, 0, TRUE) \cup scan_row(S, hi, 0, FALSE)
    ELSE scan_rows(scan_rows(S, hi, ((hi + lo) \div 2) + 1), (hi + lo) \div 2, lo)

\* The outer loop of update(), from row y upwards.
scan(S, y) == scan_rows(S, y, 0)

\* the largest value of update_counter
u8_max == 255

wrapping_add(c, n) == (c + n) % (u8_max + 1)

\* Sandbox::update: the states it can end in; rec says whether the history
\* is to keep the positions visited
update(rec) ==
    LET counter == wrapping_add(update_counter, 1)
        T0 == [cells |-> cells, counter |-> counter, at |-> 0,
               moved |-> [i \in DOMAIN cells |-> 0],
               procd |-> [i \in DOMAIN cells |-> FALSE],
               log |-> << >>, procs |-> << >>, passed |-> << >>, xfers |-> << >>,
               visited |-> << >>, rec |-> rec, depleted |-> {}, drew |-> {}]
    IN  scan({T0}, height - 1)

-----------------------------------------------------------------------------
(* The moisture arithmetic in f32.  Above, a moisture is a number of
   hundredths and its arithmetic is exact.  Here it is the f32 the program
   computes with, written as a multiple of 2^-30 (every f32 the transfers
   meet is one), and every addition and subtraction rounds to the nearest
   f32, ties to even. *)

\* 1.0
f32_one == 1073741824

\* the f32 the literal of h hundredths denotes
f32_lit(h) ==
    CASE h = 0   -> 0
      [] h = 1   -> 10737418
      [] h = 5   -> 53687092
      [] h = 50  -> f32_one \div 2
      [] h = 100 -> f32_one
      [] h = 150 -> f32_one + f32_one \div 2

\* the distance between the f32 values around v >= 0: the significand has 24
\* bits
RECURSIVE f32_spacing(_)
f32_spacing(v) == IF v < 16777216 THEN 1 ELSE 2 * f32_spacing(v \div 2)

\* v >= 0 rounded to a multiple of q, r being v % q: to the nearest, and of
\* two equally near to the one with the even significand
f32_nearest(v, q, r) ==
    IF 2 * r < q THEN v - r
    ELSE IF 2 * r > q THEN v - r + q
    ELSE IF ((v - r) \div q) % 2 = 0 THEN v - r
    ELSE v - r + q

\* a variant that rounds to a 16-bit significand
f32_round_abs_short(v) ==
    f32_nearest(v, 256 * f32_spacing(v), v % (256 * f32_spacing(v)))

f32_round_abs(v) == f32_nearest(v, f32_spacing(v), v % f32_spacing(v))

f32_round(v) == IF v < 0 THEN -f32_round_abs(-v) ELSE f32_round_abs(v)

f32_add(a, b) == f32_round(a + b)

f32_sub(a, b) == f32_round(a - b)

\* Cell::new and Cell::default, the fields the diffusion reads
Cell_new_f32(t) == [type |-> t, moisture |-> f32_lit(inherent_wetness(t))]

Cell_default_f32 == [type |-> "Empty", moisture |-> 0]

property_diffuse_potential_f32(c) ==
    IF c.moisture = 0 THEN 0
    ELSE IF c.moisture > f32_lit(property_diffusion_rate(c))
         THEN f32_lit(property_diffusion_rate(c))
    ELSE c.moisture

\* property_accept_potential once raw_potential is computed
accept_potential_of(c, raw_potential) ==
    IF raw_potential <= 0 THEN 0
    ELSE IF raw_potential > f32_lit(property_accept_rate(c))
         THEN f32_lit(property_accept_rate(c))
    ELSE raw_potential

property_accept_potential_f32(c) ==
    accept_potential_of(c, f32_sub(f32_lit(property_capacity(c)), c.moisture))

\* the predicate of the find in try_spread_property
spread_accepts_f32(source, t) ==
    (~is_empty(t) /\ is_pure_source(source))
    \/ (t.moisture < source.moisture /\ property_accept_potential_f32(t) > 0)

\* check_depletion on the source cell
check_depletion_f32(cell) ==
    IF is_pure_source(cell) /\ cell.moisture <= f32_lit(depletion_threshold)
    THEN Cell_default_f32
    ELSE cell

\* the transfer of try_spread_property from slot i to slot j of the row R,
\* with the history of it
spread_transfer_f32(R, i, j, source, target, transfer) ==
    [R EXCEPT
        !.cells[j].moisture = f32_add(target.moisture, transfer),
        !.cells[i] = check_depletion_f32(
                         [source EXCEPT !.moisture = f32_sub(source.moisture, transfer)]),
        !.xfers = Append(@, [source |-> source, target |-> target,
                             transfer |-> transfer,
                             left |-> f32_sub(source.moisture, transfer),
                             targetAfter |-> f32_add(target.moisture, transfer)])]

\* update_cell on slot i of the row, j being the other slot: of the eight
\* candidates of update_property it is the only one in range.  Nothing moves
\* on a one-row grid, and within RoundTicks updates of a new sandbox no
\* stamp equals update_counter.
update_cell_f32(R, i, j) ==
    IF is_empty(R.cells[i]) THEN R
    ELSE IF R.cells[i].moisture < f32_lit(property_min_saturation(R.cells[i])) THEN R
    ELSE IF ~spread_accepts_f32(R.cells[i], R.cells[j]) THEN R
    ELSE spread_transfer_f32(R, i, j, R.cells[i], R.cells[j],
                             Min(property_diffuse_potential_f32(R.cells[i]),
                                 property_accept_potential_f32(R.cells[j])))

\* update() on the row, first being the slot the scan of the row starts at
update_f32(R, first) ==
    update_cell_f32(update_cell_f32([R EXCEPT !.xfers = << >>, !.ticks = @ + 1,
                                              !.before = R.cells],
                                    first, 3 - first),
                    3 - first, first)

\* Sandbox::new(2, 1)
Sandbox_new_f32 ==
    [cells |-> <<Cell_default_f32, Cell_default_f32>>, xfers |-> << >>,
     before |-> <<Cell_default_f32, Cell_default_f32>>, ticks |-> 0, places |-> 0]

-----------------------------------------------------------------------------
(* The state machine *)

\* the reaction table of the program whose REACTIONS slice is rs, before any
\* lookup, and the f32 row as new
Declared(rs) ==
    /\ declared = rs
    /\ table = ReactionTable_default(rs)
    /\ lookup = [op |-> "none"]
    /\ row32 = Sandbox_new_f32

\* the update() calls a run on the grid has
TickLimit ==
    IF height = FallHeight THEN FallTicks
    ELSE IF width * height <= SoakCells \/ height = 1 THEN MaxTicks
    ELSE IF width = 1 THEN TallTicks
    ELSE ShortTicks

\* the place() calls a run on the grid has
PlaceLimit == IF height = 1 THEN RowPlace ELSE MaxPlace

\* the grids of the model: the full grid, the one-row grid, the one-column
\* grid and the grids of at most SoakCells cells (the degenerate ones with a
\* zero dimension among them)
Grids ==
    \/ /\ width \in 0 .. MaxWidth
       /\ height \in 0 .. MaxHeight
       /\ \/ width * height <= SoakCells
          \/ width = MaxWidth /\ height = MaxHeight
          \/ width = MaxWidth /\ height = 1
    \/ width = 1 /\ height = TallHeight

\* Sandbox::new(width, height) and, for the grids of at most SoakCells cells,
\* the same sandbox after u8_max update() calls, which have changed nothing
\* in it but update_counter
Init ==
    /\ Grids
    /\ cells = Sandbox_new(width, height)
    /\ \/ update_counter = 0
       \/ update_counter = u8_max /\ width * height <= SoakCells
    /\ places = 0
    /\ ticks = 0
    /\ lastOp = [op |-> "new"]
    /\ placedGrid = cells
    /\ ticksSince = 0
    /\ log = << >>
    /\ procs = << >>
    /\ passed = << >>
    /\ xfers = << >>
    /\ visited = << >>
    /\ depleted = {}
    /\ Declared(REACTIONS)

\* Sandbox::place(x, y, Cell::new(kind))
Place(x, y, kind) ==
    /\ places < PlaceLimit
    /\ ticks <= MaxPlaceTick
    /\ cells' = place(cells, x, y, Cell_new(kind))
    /\ places' = places + 1
    /\ lastOp' = [op |-> "place", x |-> x, y |-> y, cell |-> Cell_new(kind)]
    /\ placedGrid' = cells'
    /\ ticksSince' = 0
    /\ log' = << >>
    /\ procs' = << >>
    /\ passed' = << >>
    /\ xfers' = << >>
    /\ visited' = << >>
    /\ depleted' = {}
    /\ UNCHANGED <<width, height, update_counter, ticks, declared, table, lookup, row32>>

\* Sandbox::update()
UpdateWith(rec) ==
    /\ ticks < TickLimit
    /\ \E T \in update(rec) :
         /\ cells' = T.cells
         /\ update_counter' = T.counter
         /\ log' = T.log
         /\ procs' = T.procs
         /\ passed' = T.passed
         /\ xfers' = T.xfers
         /\ visited' = T.visited
         /\ depleted' = T.depleted
    /\ ticks' = ticks + 1
    /\ ticksSince' = ticksSince + 1
    /\ lastOp' = [op |-> "update"]
    /\ UNCHANGED <<width, height, places, placedGrid, declared, table, lookup, row32>>

Update == UpdateWith(FALSE)

Next ==
    \/ \E x \in -1 .. width, y \in -1 .. height, kind \in CellType : Place(x, y, kind)
    \/ Update

Spec == Init /\ [][Next]_vars

\* The same program with the history of the positions visited.
UpdateScan == UpdateWith(TRUE)

ScanNext ==
    \/ \E x \in -1 .. width, y \in -1 .. height, kind \in CellType : Place(x, y, kind)
    \/ UpdateScan

ScanSpec == Init /\ [][ScanNext]_vars

\* The program on a column of FallHeight rows, tall enough for a cell to fall
\* at max_velocity, with place() called on the rows FallRows.
FallRows == {0, FallGap, FallHeight - 1}

FallInit ==
    /\ width = 1
    /\ height = FallHeight
    /\ cells = Sandbox_new(width, height)
    /\ update_counter = 0
    /\ places = 0
    /\ ticks = 0
    /\ lastOp = [op |-> "new"]
    /\ placedGrid = cells
    /\ ticksSince = 0
    /\ log = << >>
    /\ procs = << >>
    /\ passed = << >>
    /\ xfers = << >>
    /\ visited = << >>
    /\ depleted = {}
    /\ Declared(REACTIONS)

FallNext ==
    \/ \E y \in FallRows, kind \in CellType : Place(0, y, kind)
    \/ Update

FallSpec == FallInit /\ [][FallNext]_vars

\* The reaction table on its own: ReactionTable::default applied to a slice
\* of at most MaxRules reactions, the program's REACTIONS among them, and
\* get_reactions called on the table it has built.
Reactants == {"Sand", "Water"}

Products == {<<"WetSand", NoProduct>>, <<NoProduct, NoProduct>>}

\* Reaction::new(a, b, out_a, out_b)
Reaction_new(a, b, out_a, out_b) ==
    [reactants |-> <<a, b>>, products |-> <<out_a, out_b>>,
     probability |-> 100, condition |-> "None"]

Rules == {Reaction_new(a, b, pr[1], pr[2]) : a \in Reactants, b \in Reactants, pr \in Products}

Slices == UNION {[1 .. n -> Rules] : n \in 0 .. MaxRules}

\* Sandbox::new(0, 0), a sandbox of no cells
NoGrid ==
    /\ width = 0
    /\ height = 0
    /\ cells = Sandbox_new(width, height)
    /\ update_counter = 0
    /\ places = 0
    /\ ticks = 0
    /\ lastOp = [op |-> "new"]
    /\ placedGrid = cells
    /\ ticksSince = 0
    /\ log = << >>
    /\ procs = << >>
    /\ passed = << >>
    /\ xfers = << >>
    /\ visited = << >>
    /\ depleted = {}

TableInit == NoGrid /\ \E rs \in Slices : Declared(rs)

\* REACTION_TABLE.get_reactions(a, b)
Lookup(a, b) ==
    /\ lookup' = [op |-> "get_reactions", a |-> a, b |-> b,
                  result |-> get_reactions(table, a, b)]
    /\ UNCHANGED <<width, height, cells, update_counter, places, ticks, lastOp,
                   placedGrid, ticksSince, log, procs, passed, xfers, visited,
                   depleted, declared, table, row32>>

TableNext == \E a \in CellType, b \in CellType : Lookup(a, b)

TableSpec == TableInit /\ [][TableNext]_vars

\* The one-row sandbox of two cells with its moisture in f32: place() of
\* fresh cells and update().
\* Sandbox::place(i - 1, 0, Cell::new(kind))
PlaceRow(i, kind) ==
    /\ row32.places < RoundPlaces
    /\ row32' = [row32 EXCEPT !.cells[i] = Cell_new_f32(kind), !.places = @ + 1,
                              !.xfers = << >>, !.before = [row32.cells EXCEPT ![i] = Cell_new_f32(kind)]]
    /\ UNCHANGED <<width, height, cells, update_counter, places, ticks, lastOp,
                   placedGrid, ticksSince, log, procs, passed, xfers, visited,
                   depleted, declared, table, lookup>>

\* Sandbox::update(), the scan of the row starting at slot first
UpdateRow(first) ==
    /\ row32.ticks < RoundTicks
    /\ row32' = update_f32(row32, first)
    /\ UNCHANGED <<width, height, cells, update_counter, places, ticks, lastOp,
                   placedGrid, ticksSince, log, procs, passed, xfers, visited,
                   depleted, declared, table, lookup>>

RoundNext ==
    \/ \E i \in 1 .. 2, kind \in CellType : PlaceRow(i, kind)
    \/ \E first \in 1 .. 2 : UpdateRow(first)

RoundInit == NoGrid /\ Declared(REACTIONS)

RoundSpec == RoundInit /\ [][RoundNext]_vars

-----------------------------------------------------------------------------
(* Helpers of the properties *)

Slots == 0 .. (width * height - 1)

CountOf(cs, t) == Cardinality({i \in DOMAIN cs : cs[i].type = t})

TypeOK ==
    /\ width \in 0 .. MaxWidth /\ height \in 0 .. (MaxHeight + TallHeight)
    /\ DOMAIN cells = Slots
    /\ \A i \in Slots : cells[i].type \in CellType
    /\ update_counter \in 0 .. u8_max

-----------------------------------------------------------------------------
(* Properties *)

\* the coordinates asked about: the columns and rows of the grid and those
\* next to it on every side
Xs == -1 .. width
Ys == -1 .. height

InRange(x, y) == 0 <= x /\ x < width /\ 0 <= y /\ y < height

\* the grid as last placed is empty but for one fresh cell of the kind at (x, y)
LoneIn(kind, x, y) ==
    /\ InRange(x, y)
    /\ placedGrid = [Sandbox_new(width, height) EXCEPT ![y * width + x] = Cell_new(kind)]

\* the kinds of the grid's cells, by coordinate
KindAt(x, y) == get(cells, x, y).type

\* C9: after Sandbox::new(width, height), zero dimensions included, get(x, y)
\* returns an Empty cell for every in-range coordinate and None for every
\* other one, negative ones included.
C9_NewGridIsEmpty ==
    lastOp.op = "new" =>
        \A x \in Xs, y \in Ys :
            get(cells, x, y) = IF InRange(x, y) THEN Cell_default ELSE NoCell

\* a fresh full grid: its last cell is Empty, the coordinate right of it None
C9_Witness ==
    /\ lastOp.op = "new"
    /\ width = MaxWidth /\ height = MaxHeight
    /\ get(cells, width - 1, height - 1) = Cell_default
    /\ get(cells, width, height - 1) = NoCell

\* C10: place(x, y, c) at an in-range coordinate makes get(x, y) return c
\* and leaves every other slot, the dimensions and the tick counter as they
\* were; place at an out-of-range coordinate leaves the whole state as it was.
C10_PlaceFrame ==
    [][lastOp'.op = "place" =>
        /\ width' = width /\ height' = height /\ update_counter' = update_counter
        /\ IF InRange(lastOp'.x, lastOp'.y)
           THEN /\ get(cells', lastOp'.x, lastOp'.y) = lastOp'.cell
                /\ \A x \in Xs, y \in Ys :
                      <<x, y>> # <<lastOp'.x, lastOp'.y>> => get(cells', x, y) = get(cells, x, y)
                /\ DOMAIN cells' = DOMAIN cells
           ELSE cells' = cells]_vars

\* a cell placed in range, with a cell of another kind elsewhere in the grid
C10_Witness ==
    /\ lastOp.op = "place" /\ places = MaxPlace
    /\ InRange(lastOp.x, lastOp.y)
    /\ lastOp.cell.type = "Water"
    /\ get(cells, lastOp.x, lastOp.y) = lastOp.cell
    /\ \E x \in Xs, y \in Ys : <<x, y>> # <<lastOp.x, lastOp.y>> /\ KindAt(x, y) = "Sand"

\* the swaps of the last update(), as a set
Swaps == {log[k] : k \in 1 .. Len(log)}

\* C8: every swap of the movement is between two in-range slots and takes the
\* mover into a slot whose occupant, at the time of the swap, has a strictly
\* lower density than the mover (Empty has density 0); no material leaves the
\* grid by it.
C8_SwapsGoToLowerDensity ==
    /\ \A e \in Swaps :
          /\ InRange(e.from[1], e.from[2])
          /\ InRange(e.to[1], e.to[2])
          /\ density(e.target) < density(e.mover)
    /\ DOMAIN cells = Slots

\* a Sand cell has displaced a Water cell
C8_Witness ==
    \E e \in Swaps : e.mover.type = "Sand" /\ e.target.type = "Water"

\* C3: in every reachable state every cell's moisture lies within
\* [0, property_capacity(kind)].
C3_MoistureWithinCapacity ==
    \A i \in DOMAIN cells :
        0 <= cells[i].moisture /\ cells[i].moisture <= property_capacity(cells[i])

\* C1: within one update(), once a cell has been swapped while one grid
\* position was being processed, no later-processed position swaps it again
\* (as the mover or as the displaced target) or processes it as a mover.
C1_NoCellRelocatedTwice ==
    /\ \A e \in Swaps : e.moverMoved \in {0, e.at} /\ e.targetMoved \in {0, e.at}
    /\ \A k \in 1 .. Len(procs) : procs[k].moved = 0

\* C1, as the code has it: within one update(), a cell that has been swapped
\* while one grid position was being processed is not processed as a mover at
\* a later position, and no cell is processed as a mover twice.  (A later
\* position's mover may still swap with it: can_displace compares densities
\* and does not look at last_updated.)
C1_NoCellProcessedAfterSwap ==
    \A k \in 1 .. Len(procs) : procs[k].moved = 0 /\ ~procs[k].procd

\* a cell has stepped sideways to a position the scan of its row had yet to
\* reach, where it was then passed over
C1_Witness ==
    \E e \in Swaps :
        /\ e.to[2] = e.from[2]
        /\ ~is_empty(e.mover)
        /\ get(cells, e.to[1], e.to[2]).last_updated = update_counter
        /\ ~is_empty(get(cells, e.to[1], e.to[2]))
        /\ \A k \in 1 .. Len(procs) : <<procs[k].x, procs[k].y>> # e.to

\* C2: over an update() the number of non-Empty cells changes only by the
\* pure-source (Water) cells replaced by Empty on depletion, one each; the
\* count of Sand is the same before and after, and with no depletion so is
\* the count of Water.
C2_CountChangesOnlyByDepletion ==
    [][lastOp'.op = "update" =>
        /\ CountOf(cells', "Sand") = CountOf(cells, "Sand")
        /\ CountOf(cells', "Water") = CountOf(cells, "Water") - Cardinality(depleted')
        /\ CountOf(cells', "Empty") = CountOf(cells, "Empty") + Cardinality(depleted')
        /\ DOMAIN cells' = DOMAIN cells]_vars

\* a Water cell has been replaced by Empty on depletion
C2_Witness ==
    /\ lastOp.op = "update"
    /\ depleted # {}
    /\ \A p \in depleted : KindAt(p[1], p[2]) = "Empty"
    /\ CountOf(placedGrid, "Water") = CountOf(cells, "Water") + 1

\* the cells a free-falling cell of the kind has fallen after k update()
\* calls: on the j-th call its vy is j times the gravity it feels, up to
\* max_velocity, and it steps the whole cells of that
RECURSIVE Fall(_, _)
Fall(kind, k) ==
    IF k = 0 THEN 0
    ELSE Fall(kind, k - 1)
         + (IF k * ((gravity * gravity_factor(Cell_new(kind))) \div 100) > max_velocity
            THEN max_velocity
            ELSE k * ((gravity * gravity_factor(Cell_new(kind))) \div 100)) \div 100

\* update_counter as it was in the j-th update() call since the last place()
CounterIn(j) == (update_counter + (u8_max + 1) - ticksSince + j) % (u8_max + 1)

\* The update() calls since the last place() that have processed a cell of
\* the kind placed then and free to fall: all of them, but for a call that
\* found update_counter at 0, the stamp of the cell, before the cell had
\* moved.
Processing(kind) ==
    ticksSince -
    Cardinality({j \in 1 .. ticksSince : CounterIn(j) = 0 /\ Fall(kind, j - 1) = 0})

C5_ReactionApplied ==
    \A x \in Xs :
        ( /\ width = MaxWidth /\ height = MaxHeight /\ InRange(x, 1)
          /\ placedGrid = [Sandbox_new(width, height) EXCEPT
                              ![x] = Cell_new(REACTIONS[1].reactants[1]),
                              ![width + x] = Cell_new(REACTIONS[1].reactants[2])]
          /\ ticksSince = 1 )
        => /\ KindAt(x, 0) = REACTIONS[1].products[1]
           /\ KindAt(x, 1) = (IF REACTIONS[1].products[2] = NoProduct THEN "Empty"
                              ELSE REACTIONS[1].products[2])

\* C6: a Powder cell's own movement never takes it into another slot of its
\* row: each of its steps goes straight down or diagonally down.
C6_PowderNeverSideways ==
    \A e \in Swaps :
        movement(e.mover) = "Powder" =>
            /\ e.to[2] = e.from[2] + 1
            /\ e.to[1] \in {e.from[1] - 1, e.from[1], e.from[1] + 1}

\* C6, as the code has it: each step of a Powder cell's own movement goes
\* straight down or to the neighbouring slot of its own row, never
\* diagonally and never up; and a Powder cell that is the only cell of the
\* grid keeps its column over any number of update() calls.
C6_PowderStepsDownOrAlong ==
    /\ \A e \in Swaps :
          movement(e.mover) = "Powder" =>
              \/ e.to = <<e.from[1], e.from[2] + 1>>
              \/ e.to = <<e.from[1] - 1, e.from[2]>>
              \/ e.to = <<e.from[1] + 1, e.from[2]>>
    /\ \A x \in Xs, y \in Ys :
          LoneIn("Sand", x, y) =>
              \A x2 \in Xs, y2 \in Ys : KindAt(x2, y2) = "Sand" => x2 = x

\* a Powder cell has stepped along its row
C6_Witness ==
    \E e \in Swaps : movement(e.mover) = "Powder" /\ e.to[2] = e.from[2]

\* C7: a single Water cell resting on the bottom boundary of the grid, with
\* empty slots beside it, has left its column after a few update() calls.
C7_LoneWaterSpreads ==
    \A x \in Xs :
        ( /\ LoneIn("Water", x, height - 1)
          /\ width >= 2
          /\ ticksSince >= ShortTicks )
        => KindAt(x, height - 1) # "Water"

\* C11: every update() call visits each of the width*height grid positions
\* exactly once, the rows in the order height-1 down to 0 and each row from
\* left to right or from right to left, and advances the tick counter by
\* one (a u8: from u8_max to 0).
C11_UpdateWalksTheGridOnce ==
    [][lastOp'.op = "update" =>
        /\ update_counter' = (update_counter + 1) % (u8_max + 1)
        /\ width' = width /\ height' = height
        /\ Len(visited') = width * height
        /\ \A r \in 0 .. height - 1 :
              \/ \A i \in 1 .. width : visited'[r * width + i] = <<i - 1, (height - 1) - r>>
              \/ \A i \in 1 .. width : visited'[r * width + i] = <<width - i, (height - 1) - r>>]_vars

\* an update() of the full grid that has moved a cell, its bottom row walked
\* from left to right and the row above from right to left
C11_Witness ==
    /\ lastOp.op = "update"
    /\ width = MaxWidth /\ height = MaxHeight
    /\ visited[1] = <<0, height - 1>>
    /\ visited[width + 1] = <<width - 1, height - 2>>
    /\ Len(visited) = width * height
    /\ log # << >>

\* C13: in every update(), a non-empty cell is passed over by the scan only
\* if it has been swapped earlier in that same update(): a non-empty cell not
\* yet touched in the tick is processed.
C13_SkippedOnlyIfMoved ==
    \A k \in 1 .. Len(passed) : passed[k].moved # 0

\* C14: for every cell processed in an update(), the diffusion transfer is
\* made after the cell's movement has settled and from the position the
\* movement has left it in: every swap made while a position is processed
\* precedes the transfer made there, and the transfer's source is where the
\* last of these swaps has taken the mover.
C14_DiffusionAfterMovement ==
    \A i \in 1 .. Len(xfers) : \A k \in 1 .. Len(log) :
        log[k].at = xfers[i].at =>
            /\ k <= xfers[i].swaps
            /\ (\A k2 \in (k + 1) .. Len(log) : log[k2].at # xfers[i].at)
                   => xfers[i].from = log[k].to

\* C15: over one update() the moisture that enters a cell does not exceed the
\* cell's accept rate, whatever the number of sources next to it.  Stated for
\* the updates that swap nothing, where a slot holds the same cell before and
\* after.
C15_InflowWithinAcceptRate ==
    [][lastOp'.op = "update" /\ log' = << >> =>
        \A i \in Slots :
            cells'[i].moisture - cells[i].moisture <= property_accept_rate(cells[i])]_vars

\* the transfers of the last update(), as a set
Transfers == {xfers[k] : k \in 1 .. Len(xfers)}

\* the amount try_spread_property moves for the transfer X
Moved(X) == Min(property_diffuse_potential(X.source), property_accept_potential(X.target))

\* C16: every diffusion transfer of an update() has one target, an in-range
\* slot among the eight neighbours of the source; the target is a non-empty
\* cell while the source is a pure source, or holds strictly less moisture
\* than the source and has a positive accept potential; and t = min(source's
\* diffuse potential, target's accept potential) is added to the target and
\* taken from the source (which is then Empty if the transfer has depleted it).
C16_TransferToOneNeighbour ==
    /\ \A i, j \in 1 .. Len(xfers) : xfers[i].at = xfers[j].at => i = j
    /\ \A X \in Transfers :
          /\ InRange(X.from[1], X.from[2]) /\ InRange(X.to[1], X.to[2])
          /\ X.to # X.from
          /\ Abs(X.to[1] - X.from[1]) <= 1 /\ Abs(X.to[2] - X.from[2]) <= 1
          /\ \/ ~is_empty(X.target) /\ is_pure_source(X.source)
             \/ /\ X.target.moisture < X.source.moisture
                /\ property_accept_potential(X.target) > 0
          /\ X.targetAfter = [X.target EXCEPT !.moisture = @ + Moved(X)]
          /\ \/ X.sourceAfter = [X.source EXCEPT !.moisture = @ - Moved(X)]
             \/ /\ is_empty(X.sourceAfter)
                /\ is_pure_source(X.source)
                /\ X.source.moisture - Moved(X) <= depletion_threshold

\* in one update a Water cell has given to a Sand cell and a Sand cell to a
\* drier Sand cell
C16_Witness ==
    \E X, Y \in Transfers :
        /\ X.source.type = "Water" /\ X.target.type = "Sand" /\ Moved(X) > 0
        /\ Y.source.type = "Sand" /\ Y.target.type = "Sand"
        /\ Y.target.moisture < Y.source.moisture /\ Moved(Y) > 0

\* C17: a cell whose moisture is below its kind's minimum saturation gives
\* none of it away: every transfer of an update() has a source at or above
\* the threshold, and over an update() that swaps nothing no Sand cell with a
\* moisture below 0.5 has less of it afterwards.
C17_BelowSaturationKeepsMoisture ==
    [][lastOp'.op = "update" =>
        /\ \A k \in 1 .. Len(xfers') :
              xfers'[k].source.moisture >= property_min_saturation(xfers'[k].source)
        /\ log' = << >> =>
              \A i \in Slots :
                  cells[i].type = "Sand" /\ cells[i].moisture < property_min_saturation(cells[i])
                      => cells'[i].moisture >= cells[i].moisture]_vars

\* a moist Sand cell below the threshold has been processed next to a dry Sand
\* cell and has given it nothing
C17_Witness ==
    /\ lastOp.op = "update"
    /\ \E k \in 1 .. Len(procs) :
          /\ procs[k].cell.type = "Sand"
          /\ procs[k].cell.moisture > 0
          /\ procs[k].cell.moisture < property_min_saturation(procs[k].cell)
          /\ \E dx \in {-1, 1} :
                /\ InRange(procs[k].x + dx, procs[k].y)
                /\ KindAt(procs[k].x + dx, procs[k].y) = "Sand"
                /\ get(cells, procs[k].x + dx, procs[k].y).moisture = 0

\* the transfers of xs that have left their source Empty
Depletions(xs) == {k \in 1 .. Len(xs) : is_empty(xs[k].sourceAfter)}

\* C18: a Water cell is replaced by Empty exactly when its own transfer has
\* left it with a moisture at or below 0.05; an update() removes a Water cell
\* in no other way, and no cell of another kind is removed.
C18_DepletionOnlyAtThreshold ==
    [][lastOp'.op = "update" =>
        /\ \A k \in 1 .. Len(xfers') :
              is_empty(xfers'[k].sourceAfter) <=>
                  /\ xfers'[k].source.type = "Water"
                  /\ xfers'[k].source.moisture - Moved(xfers'[k]) <= depletion_threshold
        /\ CountOf(cells', "Water") = CountOf(cells, "Water") - Cardinality(Depletions(xfers'))
        /\ CountOf(cells', "Sand") = CountOf(cells, "Sand")]_vars

\* a Water cell has given its last moisture to a Sand cell and is gone
C18_Witness ==
    \E k \in Depletions(xfers) :
        /\ xfers[k].source.type = "Water"
        /\ xfers[k].target.type = "Sand"
        /\ xfers[k].source.moisture - Moved(xfers[k]) = depletion_threshold
        /\ is_empty(get(cells, xfers[k].from[1], xfers[k].from[2]))

\* C19: in every reachable state every Empty cell has density 0, movement
\* class None, moisture 0 and zero velocity: no transfer, swap or push gives
\* an Empty cell a property or a velocity.
C19_EmptyCellsAreInert ==
    \A i \in Slots :
        is_empty(cells[i]) =>
            /\ density(cells[i]) = 0
            /\ movement(cells[i]) = "None"
            /\ cells[i].moisture = 0
            /\ cells[i].vx = 0
            /\ cells[i].vy = 0

\* an Empty cell has been swapped with a Sand cell that has a velocity and
\* moisture, and is where the Sand cell was
C19_Witness ==
    \E e \in Swaps :
        /\ is_empty(e.target)
        /\ e.mover.type = "Sand"
        /\ e.mover.vy > 0
        /\ e.mover.moisture > 0
        /\ is_empty(get(cells, e.from[1], e.from[2]))

\* the vertical swaps made while the position numbered at was processed
VerticalSteps(at) ==
    {k \in 1 .. Len(log) : log[k].at = at /\ log[k].from[1] = log[k].to[1]}

\* C20: in one update() a mover takes at most floor(max_velocity) = 8
\* vertical steps, each into the vertically adjacent slot and each from where
\* the step before has left it: it jumps over no cell.
C20_AtMostEightAdjacentSteps ==
    \A k \in 1 .. Len(log) :
        log[k].from[1] = log[k].to[1] =>
            /\ Cardinality(VerticalSteps(log[k].at)) <= max_velocity \div 100
            /\ Abs(log[k].to[2] - log[k].from[2]) = 1
            /\ (k > 1 /\ log[k - 1].at = log[k].at) => log[k - 1].to = log[k].from
            /\ ~is_empty(log[k].mover)
            /\ density(log[k].mover) > density(log[k].target)

\* in one update() a Sand cell has taken eight steps, and another one, as
\* fast, has taken fewer and has stopped at the bottom of the column
C20_Witness ==
    \E k, j \in 1 .. Len(log) :
        /\ Cardinality(VerticalSteps(log[k].at)) = max_velocity \div 100
        /\ log[k].mover.type = "Sand"
        /\ log[j].mover.type = "Sand"
        /\ log[j].at # log[k].at
        /\ Cardinality(VerticalSteps(log[j].at)) < max_velocity \div 100
        /\ log[j].mover.vy >= max_velocity - gravity
        /\ KindAt(0, height - 1) = "Sand"

\* the reactions of the slice rs declared for the ordered pair (a, b), in the
\* order of the slice
DeclaredFor(rs, a, b) == SelectSeq(rs, LAMBDA r : r.reactants = <<a, b>>)

\* C21: get_reactions(a, b) returns exactly the declared rules whose reactants
\* are the ordered pair (a, b), in declaration order, and nothing for a pair
\* with no declared rule; a rule declared for (a, b) is not returned for
\* (b, a), and the one of REACTIONS for (Sand, Water) not for (Water, Sand).
C21_LookupByOrderedPair ==
    lookup.op = "get_reactions" =>
        /\ lookup.result.some <=> DeclaredFor(declared, lookup.a, lookup.b) # << >>
        /\ lookup.result.slice = DeclaredFor(declared, lookup.a, lookup.b)
        /\ declared = REACTIONS /\ lookup.a = "Water" /\ lookup.b = "Sand"
               => lookup.result = NoReactions

\* the pair looked up has two rules with one for the reversed pair declared
\* between them: the two are returned, first declared first
C21_Witness ==
    /\ lookup.op = "get_reactions"
    /\ Len(declared) = 3
    /\ declared[1].reactants = <<lookup.a, lookup.b>>
    /\ declared[2].reactants = <<lookup.b, lookup.a>>
    /\ declared[3].reactants = <<lookup.a, lookup.b>>
    /\ lookup.a # lookup.b
    /\ declared[1] # declared[3]
    /\ lookup.result = [some |-> TRUE, slice |-> <<declared[1], declared[3]>>]

\* what the target of the transfer X of the f32 row has gained, and what its
\* source has lost
Gain(X) == X.targetAfter - X.target.moisture

Loss(X) == X.source.moisture - X.left

\* the transfer X has depleted its source
Depletes(X) == is_pure_source(X.source) /\ X.left <= f32_lit(depletion_threshold)

\* over the first n transfers of the last update() of the f32 row: what the
\* roundings have added to the sum of the moisture, and what the depletions
\* have taken from it
RECURSIVE RoundedTo(_)
RoundedTo(n) ==
    IF n = 0 THEN 0 ELSE RoundedTo(n - 1) + Gain(row32.xfers[n]) - Loss(row32.xfers[n])

RECURSIVE LostTo(_)
LostTo(n) ==
    IF n = 0 THEN 0
    ELSE LostTo(n - 1) + (IF Depletes(row32.xfers[n]) THEN row32.xfers[n].left ELSE 0)

\* the change of the sum of the moisture of the f32 row over its last update()
Drift ==
    (row32.cells[1].moisture - row32.before[1].moisture)
    + (row32.cells[2].moisture - row32.before[2].moisture)

\* 2^-23, the distance between the f32 values from 1.0 to 2.0
Ulp == f32_one \div 8388608

\* C22: update() never creates moisture.  Over an update() the sum of the
\* moisture of all cells does not increase; every transfer takes from its
\* source exactly what it gives to its target; and the sum decreases only by
\* the residual moisture of the Water cells removed by depletion.
C22_MoistureNeverCreated ==
    /\ Drift <= 0
    /\ \A k \in 1 .. Len(row32.xfers) : Gain(row32.xfers[k]) = Loss(row32.xfers[k])
    /\ Drift = -LostTo(Len(row32.xfers))

\* C22, as the code has it: update() creates no moisture but by the rounding
\* of f32.  A transfer adds t to the target and takes t from the source, each
\* result rounded to the nearest f32, so that what the target gains and what
\* the source loses differ by at most 2^-23, either way; the sum of the
\* moisture changes over an update() by these differences and by the residual
\* moisture, at most 0.05 each, of the Water cells removed by depletion, and
\* by nothing else.
C22_MoistureCreatedOnlyByRounding ==
    /\ \A k \in 1 .. Len(row32.xfers) :
          /\ Abs(Gain(row32.xfers[k]) - Loss(row32.xfers[k])) <= Ulp
          /\ 2 * Abs(Gain(row32.xfers[k]) - row32.xfers[k].transfer) <= Ulp
          /\ 2 * Abs(Loss(row32.xfers[k]) - row32.xfers[k].transfer) <= Ulp
          /\ Depletes(row32.xfers[k]) =>
                 row32.xfers[k].left >= 0
    /\ Drift = RoundedTo(Len(row32.xfers)) - LostTo(Len(row32.xfers))
    /\ Drift <= Len(row32.xfers) * Ulp

\* an update() has left more moisture in the row than there was: the target
\* of a transfer has gained more than its source has lost, and no cell has
\* been placed or removed
C22_Witness ==
    /\ Drift > 0
    /\ \E k \in 1 .. Len(row32.xfers) :
          /\ Gain(row32.xfers[k]) > Loss(row32.xfers[k])
          /\ row32.xfers[k].source.type = "Water"
          /\ row32.xfers[k].target.type = "Sand"
          /\ ~Depletes(row32.xfers[k])

====
